---- MODULE Spec2Model ----
(***************************************************************************)
(* Trading-card collection manager: field validators, the pydantic card    *)
(* models, the local (SQLite) and the remote (hosted REST) card            *)
(* repository, the two card services, the card-lookup service, the         *)
(* repository factory, the card and admin route handlers, and user         *)
(* registration.                                                           *)
(*                                                                         *)
(* Representation.  A Python str is a sequence of one-character strings;   *)
(* Python None is the value None below; a Python bool is the integer 0 or  *)
(* 1 (bool is a subclass of int, and SQLite stores it as INTEGER); a dict  *)
(* is a function from key names to values.                                 *)
(***************************************************************************)
EXTENDS Integers, Sequences, FiniteSets, TLC

\* ---------------------------------------------------------------- bounds
\* Number of ids the AUTOINCREMENT primary key of the cards table hands out.
MaxCards == 2
\* Largest quantity a record reaches by merging creates in the remote table.
MaxQty == 3

\* ------------------------------------------------------ program constants
NameMax == 100
SetMax == 100
NumberMax == 20
RarityMax == 50
QuantityMax == 999

None == <<"None">>
Unknown == <<"U", "n", "k", "n", "o", "w", "n">>

CardFields == {"name", "set_name", "card_number", "rarity", "quantity", "is_favorite"}

\* ------------------------------------------------------------ str helpers
Rep(c, n) == [i \in 1..n |-> c]

RECURSIVE LStrip(_)
LStrip(s) == IF s # <<>> /\ Head(s) = " " THEN LStrip(Tail(s)) ELSE s

RECURSIVE RStrip(_)
RStrip(s) == IF s # <<>> /\ s[Len(s)] = " " THEN RStrip(SubSeq(s, 1, Len(s) - 1)) ELSE s

\* str.strip()
Strip(s) == RStrip(LStrip(s))

\* "not x" for an Optional[str]
Falsy(s) == s = None \/ s = <<>>

\* bool(x) and "not x" for an int / bool
Bool(x) == IF x # 0 THEN 1 ELSE 0
Not(x) == IF x # 0 THEN 0 ELSE 1

\* dict helpers: {**a, **b} and d.get(k, default)
Merge(a, b) == [k \in DOMAIN a \cup DOMAIN b |-> IF k \in DOMAIN b THEN b[k] ELSE a[k]]
Get(d, k, default) == IF k \in DOMAIN d THEN d[k] ELSE default
EmptyDict == [k \in {} |-> 0]

Ok(v) == [ok |-> TRUE, v |-> v]
Raise(e) == [ok |-> FALSE, v |-> e]

\* -------------------------------------------------------- field validators
validate_card_name(name) ==
    IF Falsy(name) \/ Strip(name) = <<>> THEN Raise("ValueError")
    ELSE IF Len(Strip(name)) > NameMax THEN Raise("ValueError")
    ELSE Ok(Strip(name))

validate_card_set(set_name) ==
    IF Falsy(set_name) THEN Ok(Unknown)
    ELSE IF Len(Strip(set_name)) > SetMax THEN Raise("ValueError")
    ELSE Ok(Strip(set_name))

validate_card_quantity(quantity) ==
    IF quantity < 1 THEN Raise("ValueError")
    ELSE IF quantity > QuantityMax THEN Raise("ValueError")
    ELSE Ok(quantity)

validate_card_number(card_number) ==
    IF Falsy(card_number) THEN Ok(None)
    ELSE IF Len(Strip(card_number)) > NumberMax THEN Raise("ValueError")
    ELSE Ok(Strip(card_number))

validate_card_rarity(rarity) ==
    IF Falsy(rarity) THEN Ok(None)
    ELSE IF Len(Strip(rarity)) > RarityMax THEN Raise("ValueError")
    ELSE Ok(Strip(rarity))

\* -------------------------------------------------------- pydantic models

\* Field constraints without the lower bound of quantity (ge=1 left out).
FieldOkNoMinimum(k, v, optional) ==
    CASE k = "name" -> IF v = None THEN optional ELSE Len(v) >= 1 /\ Len(v) <= NameMax
      [] k = "set_name" -> IF v = None THEN optional ELSE Len(v) <= SetMax
      [] k = "card_number" -> v = None \/ Len(v) <= NumberMax
      [] k = "rarity" -> v = None \/ Len(v) <= RarityMax
      [] k = "quantity" -> TRUE
      [] k = "is_favorite" -> v \in {0, 1}

\* Field constraints shared by CardCreate and CardUpdate; optional says
\* whether None is accepted for the field.
FieldOk(k, v, optional) ==
    CASE k = "name" -> IF v = None THEN optional ELSE Len(v) >= 1 /\ Len(v) <= NameMax
      [] k = "set_name" -> IF v = None THEN optional ELSE Len(v) <= SetMax
      [] k = "card_number" -> v = None \/ Len(v) <= NumberMax
      [] k = "rarity" -> v = None \/ Len(v) <= RarityMax
      [] k = "quantity" -> v >= 1
      [] k = "is_favorite" -> v \in {0, 1}

\* CardCreate(**data).model_dump(): undeclared keys (date_added, user_id) are
\* ignored, missing declared fields take their defaults.
CardCreateDefaults ==
    [name |-> None, set_name |-> Unknown, card_number |-> None, rarity |-> None,
     quantity |-> 1, is_favorite |-> 0]

CardCreate(data) ==
    LET full == [k \in CardFields |-> Get(data, k, CardCreateDefaults[k])]
    IN IF \A k \in CardFields : FieldOk(k, full[k], k \in {"card_number", "rarity"})
       THEN Ok(full)
       ELSE Raise("ValueError")

\* A CardUpdate that keeps undeclared keys (extra = "allow") and dumps them.
CardUpdateKeepsExtra(data) ==
    LET set == CardFields \cap DOMAIN data
    IN IF \A k \in set : FieldOk(k, data[k], TRUE)
       THEN Ok(data)
       ELSE Raise("ValueError")

\* CardUpdate(**data).model_dump(exclude_unset=True): only the declared
\* fields that were passed are dumped.
CardUpdate(data) ==
    LET set == CardFields \cap DOMAIN data
    IN IF \A k \in set : FieldOk(k, data[k], TRUE)
       THEN Ok([k \in set |-> data[k]])
       ELSE Raise("ValueError")

\* ------------------------------------------------- card_operations module
\* create_card_data(name, set_name, card_number, rarity, quantity,
\* is_favorite, user_id): args holds the keyword arguments the caller passed.
create_card_data(args, user_id, now) ==
    LET validated_name == validate_card_name(Get(args, "name", None))
        validated_set == validate_card_set(Get(args, "set_name", Unknown))
        validated_quantity == validate_card_quantity(Get(args, "quantity", 1))
        validated_number == validate_card_number(Get(args, "card_number", None))
        validated_rarity == validate_card_rarity(Get(args, "rarity", None))
    IN IF ~(validated_name.ok /\ validated_set.ok /\ validated_quantity.ok
            /\ validated_number.ok /\ validated_rarity.ok)
       THEN Raise("ValueError")
       ELSE CardCreate([name |-> validated_name.v,
                        set_name |-> validated_set.v,
                        card_number |-> validated_number.v,
                        rarity |-> validated_rarity.v,
                        quantity |-> validated_quantity.v,
                        is_favorite |-> Bool(Get(args, "is_favorite", 0)),
                        date_added |-> now,
                        user_id |-> user_id])

ValidateUpdate(k, v) ==
    CASE k = "name" -> validate_card_name(v)
      [] k = "set_name" -> validate_card_set(v)
      [] k = "quantity" -> validate_card_quantity(v)
      [] k = "card_number" -> validate_card_number(v)
      [] k = "rarity" -> validate_card_rarity(v)
      [] OTHER -> Ok(v)

\* A mis-ordered merge: the existing record overrides the supplied fields.
update_card_data_stale(existing_card, updates) ==
    IF DOMAIN updates = {} THEN Ok(existing_card)
    ELSE IF \E k \in DOMAIN updates : ~ValidateUpdate(k, updates[k]).ok
    THEN Raise("ValueError")
    ELSE CardUpdate(Merge([k \in DOMAIN updates |-> ValidateUpdate(k, updates[k]).v],
                          existing_card))

update_card_data(existing_card, updates) ==
    IF DOMAIN updates = {} THEN Ok(existing_card)
    ELSE IF \E k \in DOMAIN updates : ~ValidateUpdate(k, updates[k]).ok
    THEN Raise("ValueError")
    ELSE CardUpdate(Merge(existing_card,
                          [k \in DOMAIN updates |-> ValidateUpdate(k, updates[k]).v]))

\* --------------------------------------------------- local card repository
\* Columns of the cards table (database/schema.py).
Columns == CardFields \cup {"id", "date_added"}

RowDict(id, row) == Merge(row, [id |-> id])

\* INSERT INTO cards (<keys>) VALUES (...): column defaults fill the missing
\* keys, a NULL in a NOT NULL column fails, the new id is one more than the
\* largest id ever handed out (AUTOINCREMENT).
RepoCreate(cards, seq, data) ==
    LET row == [name |-> Get(data, "name", None),
                set_name |-> Get(data, "set_name", Unknown),
                card_number |-> Get(data, "card_number", None),
                rarity |-> Get(data, "rarity", None),
                quantity |-> Get(data, "quantity", 1),
                is_favorite |-> Get(data, "is_favorite", 0),
                date_added |-> Get(data, "date_added", 0)]
        id == seq + 1
    IN IF ~(DOMAIN data \subseteq Columns)
       THEN [result |-> "OperationalError", id |-> 0, cards |-> cards, seq |-> seq]
       ELSE IF row.name = None \/ row.set_name = None \/ row.date_added = 0
       THEN [result |-> "IntegrityError", id |-> 0, cards |-> cards, seq |-> seq]
       ELSE [result |-> "id", id |-> id,
             cards |-> [i \in DOMAIN cards \cup {id} |-> IF i = id THEN row ELSE cards[i]],
             seq |-> id]

\* SELECT * FROM cards WHERE id = ?  (a sequence of zero or one dict)
FindById(cards, id) == IF id \in DOMAIN cards THEN <<RowDict(id, cards[id])>> ELSE <<>>

\* SELECT * FROM cards ORDER BY date_added DESC  (as a set; order not kept)
FindAll(cards) == {RowDict(i, cards[i]) : i \in DOMAIN cards}

\* SELECT * FROM cards WHERE is_favorite = 1 ORDER BY name
FindFavorites(cards) == {RowDict(i, cards[i]) : i \in {j \in DOMAIN cards : cards[j].is_favorite = 1}}

\* ASCII case folding of SQLite LIKE, on the letters the model uses
Lower(c) == CASE c = "A" -> "a" [] c = "B" -> "b" [] OTHER -> c

\* text LIKE pattern
RECURSIVE Like(_, _)
Like(p, t) ==
    IF p = <<>> THEN t = <<>>
    ELSE IF Head(p) = "%" THEN \E k \in 0..Len(t) : Like(Tail(p), SubSeq(t, k + 1, Len(t)))
    ELSE IF t = <<>> THEN FALSE
    ELSE (Head(p) = "_" \/ Lower(Head(p)) = Lower(Head(t))) /\ Like(Tail(p), Tail(t))

\* SELECT * FROM cards WHERE name LIKE '%<name>%' ORDER BY name
FindByName(cards, name) ==
    {RowDict(i, cards[i]) : i \in {j \in DOMAIN cards : Like(<<"%">> \o name \o <<"%">>, cards[j].name)}}

\* An update that inserts the row when no row has the id (an upsert).
RepoUpdateUpserts(cards, id, data) ==
    IF DOMAIN data = {} THEN [result |-> "False", cards |-> cards]
    ELSE IF ~(DOMAIN data \subseteq Columns)
    THEN [result |-> "OperationalError", cards |-> cards]
    ELSE IF id \notin DOMAIN cards
    THEN [result |-> "True",
          cards |-> [i \in DOMAIN cards \cup {id} |->
                        IF i = id THEN [c \in Columns \ {"id"} |-> Get(data, c, 0)] ELSE cards[i]]]
    ELSE [result |-> "True",
          cards |-> [cards EXCEPT ![id] =
                        [c \in DOMAIN cards[id] |-> IF c \in DOMAIN data THEN data[c] ELSE cards[id][c]]]]

\* UPDATE cards SET k = ?, ... WHERE id = ?; returns rowcount > 0
RepoUpdate(cards, id, data) ==
    IF DOMAIN data = {} THEN [result |-> "False", cards |-> cards]
    ELSE IF ~(DOMAIN data \subseteq Columns)
    THEN [result |-> "OperationalError", cards |-> cards]
    ELSE IF id \notin DOMAIN cards THEN [result |-> "False", cards |-> cards]
    ELSE IF \/ \E c \in {"name", "set_name"} \cap DOMAIN data : data[c] = None
            \/ ("date_added" \in DOMAIN data /\ data["date_added"] = 0)
            \/ ("id" \in DOMAIN data /\ data["id"] # id)
    THEN [result |-> "IntegrityError", cards |-> cards]
    ELSE [result |-> "True",
          cards |-> [cards EXCEPT ![id] =
                        [c \in DOMAIN cards[id] |-> IF c \in DOMAIN data THEN data[c] ELSE cards[id][c]]]]

\* DELETE FROM cards WHERE id = ?; returns rowcount > 0
RepoDelete(cards, id) ==
    IF id \in DOMAIN cards
    THEN [result |-> "True", cards |-> [i \in DOMAIN cards \ {id} |-> cards[i]]]
    ELSE [result |-> "False", cards |-> cards]

RECURSIVE SumQuantity(_, _)
SumQuantity(cards, ids) ==
    IF ids = {} THEN 0
    ELSE LET i == CHOOSE j \in ids : TRUE IN cards[i].quantity + SumQuantity(cards, ids \ {i})

SetCount(cards, s) == Cardinality({i \in DOMAIN cards : cards[i].set_name = s})

\* CardRepository.get_stats: the possible results (GROUP BY ... ORDER BY count
\* DESC LIMIT 1 may return any of the sets that tie for the largest count).
GetStats(cards) ==
    LET sets == {cards[i].set_name : i \in DOMAIN cards}
        top == {s \in sets : \A u \in sets : SetCount(cards, u) <= SetCount(cards, s)}
    IN {[total_cards |-> Cardinality(DOMAIN cards),
         total_quantity |-> SumQuantity(cards, DOMAIN cards),
         favorites |-> Cardinality({i \in DOMAIN cards : cards[i].is_favorite = 1}),
         most_common_set |-> m] : m \in IF sets = {} THEN {<<"N", "o", "n", "e">>} ELSE top}

\* -------------------------------------------------- remote card repository
\* The repository talks to the hosted table over HTTP; net is the outcome of
\* the request: "ok", or "fail" for a network error or an error response
\* (requests.exceptions.RequestException after raise_for_status).
RemoteColumns == Columns \cup {"user_id"}

\* The stored procedure add_or_increment_card: a record with the same name,
\* set_name and card_number gets the quantity added and its id is returned,
\* otherwise one new record is inserted.
add_or_increment_card(cards, seq, p, now) ==
    LET match == {i \in DOMAIN cards : /\ cards[i]["name"] = p["p_name"]
                                       /\ cards[i]["set_name"] = p["p_set_name"]
                                       /\ cards[i]["card_number"] = p["p_card_number"]}
        id == seq + 1
        row == [name |-> p["p_name"], set_name |-> p["p_set_name"],
                card_number |-> p["p_card_number"], rarity |-> p["p_rarity"],
                quantity |-> p["p_quantity"], is_favorite |-> p["p_is_favorite"],
                date_added |-> now, user_id |-> p["p_user_id"]]
    IN IF match # {}
       THEN {[result |-> "id", id |-> i, seq |-> seq,
              cards |-> [cards EXCEPT ![i]["quantity"] = @ + p["p_quantity"]]] : i \in match}
       ELSE {[result |-> "id", id |-> id, seq |-> id,
              cards |-> [i \in DOMAIN cards \cup {id} |-> IF i = id THEN row ELSE cards[i]]]}

\* A create that posts the record to the table itself instead of calling the
\* stored procedure: always one new record.
SupabaseCreateInsert(cards, seq, data, net, now) ==
    LET id == seq + 1
        row == [name |-> Get(data, "name", None), set_name |-> Get(data, "set_name", Unknown),
                card_number |-> Get(data, "card_number", None),
                rarity |-> Get(data, "rarity", None),
                quantity |-> Get(data, "quantity", 1),
                is_favorite |-> Get(data, "is_favorite", 0),
                date_added |-> now, user_id |-> Get(data, "user_id", "none")]
    IN IF net # "ok"
       THEN {[result |-> "RequestException", id |-> 0, seq |-> seq, cards |-> cards]}
       ELSE {[result |-> "id", id |-> id, seq |-> id,
              cards |-> [i \in DOMAIN cards \cup {id} |-> IF i = id THEN row ELSE cards[i]]]}

\* SupabaseCardRepository.create: the possible outcomes
SupabaseCreate(cards, seq, data, net, now) ==
    LET payload == [p_name |-> Get(data, "name", None),
                    p_set_name |-> Get(data, "set_name", Unknown),
                    p_card_number |-> Get(data, "card_number", None),
                    p_rarity |-> Get(data, "rarity", None),
                    p_quantity |-> Get(data, "quantity", 1),
                    p_is_favorite |-> Get(data, "is_favorite", 0),
                    p_user_id |-> Get(data, "user_id", "none")]
    IN IF net # "ok"
       THEN {[result |-> "RequestException", id |-> 0, seq |-> seq, cards |-> cards]}
       ELSE add_or_increment_card(cards, seq, payload, now)

\* A find_by_id that lets the RequestException of a failed request through.
SupabaseFindByIdPropagates(cards, id, net) ==
    IF net # "ok" THEN [result |-> "RequestException", rows |-> {}]
    ELSE IF id \in DOMAIN cards THEN [result |-> "row", rows |-> {RowDict(id, cards[id])}]
    ELSE [result |-> "None", rows |-> {}]

\* GET ...?id=eq.<id>: the first row of the answer, None when the answer is
\* empty or the request fails
SupabaseFindById(cards, id, net) ==
    IF net # "ok" THEN [result |-> "None", rows |-> {}]
    ELSE IF id \in DOMAIN cards THEN [result |-> "row", rows |-> {RowDict(id, cards[id])}]
    ELSE [result |-> "None", rows |-> {}]

\* GET ...?is_favorite=eq.true  ([] when the request fails)
SupabaseFindFavorites(cards, net) ==
    IF net # "ok" THEN {}
    ELSE {RowDict(i, cards[i]) : i \in {j \in DOMAIN cards : cards[j]["is_favorite"] = 1}}

\* GET ...?order=date_added.desc  (as a set; [] when the request fails)
SupabaseFindAll(cards, net) == IF net # "ok" THEN {} ELSE FindAll(cards)

\* GET ...?name=ilike.*<name>*  ("*" stands for "%" in the pattern)
SupabaseFindByName(cards, name, net) ==
    IF net # "ok" THEN {}
    ELSE LET p == <<"%">> \o [i \in 1..Len(name) |-> IF name[i] = "*" THEN "%" ELSE name[i]]
                       \o <<"%">>
         IN {RowDict(i, cards[i]) : i \in {j \in DOMAIN cards : Like(p, cards[j]["name"])}}

\* PATCH ...?id=eq.<id>: true when the response lists an updated row
SupabaseUpdate(cards, id, data, net) ==
    IF net # "ok" THEN [result |-> "False", cards |-> cards]
    ELSE IF ~(DOMAIN data \subseteq RemoteColumns) THEN [result |-> "False", cards |-> cards]
    ELSE IF id \notin DOMAIN cards THEN [result |-> "False", cards |-> cards]
    ELSE [result |-> "True",
          cards |-> [cards EXCEPT ![id] =
                        [c \in DOMAIN cards[id] |-> IF c \in DOMAIN data THEN data[c] ELSE cards[id][c]]]]

\* DELETE ...?id=eq.<id>: true whenever the request succeeded
SupabaseDelete(cards, id, net) ==
    IF net # "ok" THEN [result |-> "False", cards |-> cards]
    ELSE [result |-> "True", cards |-> [i \in DOMAIN cards \ {id} |-> cards[i]]]

ZeroStats ==
    [total_cards |-> 0, total_quantity |-> 0, favorites |-> 0,
     most_common_set |-> <<"N", "o", "n", "e">>]

RECURSIVE SumOf(_)
SumOf(rows) ==
    IF rows = {} THEN 0
    ELSE LET r == CHOOSE x \in rows : TRUE IN Get(r, "quantity", 0) + SumOf(rows \ {r})

\* A get_stats that counts every record as favorite.
SupabaseGetStatsCountsAll(cards, net) ==
    LET rows == SupabaseFindAll(cards, net)
        sets == {Get(r, "set_name", Unknown) : r \in rows}
        n(s) == Cardinality({r \in rows : Get(r, "set_name", Unknown) = s})
    IN {[total_cards |-> Cardinality(rows),
         total_quantity |-> SumOf(rows),
         favorites |-> Cardinality(rows),
         most_common_set |-> m] :
            m \in IF sets = {} THEN {<<"N", "o", "n", "e">>}
                  ELSE {s \in sets : \A u \in sets : n(u) <= n(s)}}

\* SupabaseCardRepository.get_stats: computed from find_all(); max() takes
\* one of the sets with the largest count.
SupabaseGetStats(cards, net) ==
    LET rows == SupabaseFindAll(cards, net)
        sets == {Get(r, "set_name", Unknown) : r \in rows}
        n(s) == Cardinality({r \in rows : Get(r, "set_name", Unknown) = s})
    IN {[total_cards |-> Cardinality(rows),
         total_quantity |-> SumOf(rows),
         favorites |-> Cardinality({r \in rows : Get(r, "is_favorite", 0) # 0}),
         most_common_set |-> m] :
            m \in IF sets = {} THEN {<<"N", "o", "n", "e">>}
                  ELSE {s \in sets : \A u \in sets : n(u) <= n(s)}}

\* ------------------------------------------------------ repository factory
\* Config.USE_SUPABASE; url is "unset", "ok" or "badshape", key "unset" or "set"
USE_SUPABASE(url, key) == url # "unset" /\ key # "unset"

validate_supabase_config(url, key) ==
    IF url = "unset" THEN FALSE
    ELSE IF key = "unset" THEN FALSE
    ELSE IF url = "badshape" THEN FALSE
    ELSE TRUE

\* SupabaseCardRepository(**kwargs): __init__ takes no parameter but self
NewSupabaseCardRepository(kwargs, url, key) ==
    IF kwargs # {} THEN "TypeError"
    ELSE IF url = "unset" \/ key = "unset" THEN "ValueError"
    ELSE "remote"

get_card_repository(url, key, user_jwt_token) ==
    IF USE_SUPABASE(url, key)
    THEN IF ~validate_supabase_config(url, key) THEN "ValueError"
         ELSE NewSupabaseCardRepository({"user_jwt_token"}, url, key)
    ELSE "local"

\* ------------------------------------------------------------- the services
\* kwargs whose value is not None (None is modelled for str arguments only)
StrFields == {"name", "set_name", "card_number", "rarity"}
NotNone(kwargs) ==
    [k \in {j \in DOMAIN kwargs : ~(j \in StrFields /\ kwargs[j] = None)} |-> kwargs[k]]

\* CardService(**kwargs): __init__ takes no parameter but self
NewCardServiceAny(kwargs) == "ok"

NewCardService(kwargs) == IF kwargs # {} THEN "TypeError" ELSE "ok"

SharedCardService_add_card(cards, seq, args, user_id, now) ==
    LET card_data == create_card_data(args, user_id, now)
    IN IF ~card_data.ok
       THEN [result |-> "ValueError", id |-> 0, cards |-> cards, seq |-> seq]
       ELSE RepoCreate(cards, seq, card_data.v)

\* validate_pokemon and the state of the lookup service at the time of a
\* health check (api1) and of a lookup (api2) are inputs of the call.
CardService_add_card(cards, seq, args, validate_pokemon, api1, api2, now) ==
    LET set_name == Get(args, "set_name", Unknown)
        card_create == CardCreate([name |-> Strip(args["name"]),
                                   set_name |-> IF Falsy(set_name) THEN Unknown ELSE Strip(set_name),
                                   card_number |-> Get(args, "card_number", None),
                                   rarity |-> Get(args, "rarity", None),
                                   quantity |-> Get(args, "quantity", 1),
                                   is_favorite |-> Get(args, "is_favorite", 0),
                                   date_added |-> now])
    IN IF ~card_create.ok
       THEN [result |-> "ValueError", id |-> 0, cards |-> cards, seq |-> seq]
       ELSE RepoCreate(cards, seq, card_create.v)

\* ---- the card-lookup service (services/pokemon_api_service.py).  api is the
\* answer the service gives to one request: "healthy" (2xx, a JSON object
\* with the list "data"), "timeout", "refused", "non2xx", "nonjson" (2xx, the
\* body is not JSON) or "notobject" (2xx, JSON that is not an object, a list).

\* PokemonAPIService._make_request: None, or the parsed body
make_request(api) ==
    IF api \in {"timeout", "refused", "non2xx", "nonjson"} THEN "None"
    ELSE IF api = "notobject" THEN "list"
    ELSE "dict"

\* PokemonAPIService.health_check / is_api_available
is_api_available(api) == api = "healthy"

\* PokemonAPIService.validate_card_name: (is_valid, error_message); known
\* are the names the lookup service has a card for.
PokemonAPIService_validate_card_name(card_name, api, known) ==
    IF Falsy(card_name) \/ Strip(card_name) = <<>> THEN <<FALSE, "cannot be empty">>
    ELSE LET data == make_request(api)
         IN IF data = "None" THEN <<FALSE, "is not responding">>
            \* data.get on a list raises AttributeError, caught by the method
            ELSE IF data = "list" THEN <<FALSE, "an error occurred">>
            ELSE IF Strip(card_name) \notin known THEN <<FALSE, "is not a valid pokemon card">>
            ELSE <<TRUE, "None">>

\* CardService.validate_pokemon_card; api1 answers the health check, api2
\* the lookup request.
validate_pokemon_card(name, api1, api2, known) ==
    IF ~is_api_available(api1) THEN <<TRUE, "None">>
    ELSE LET r == PokemonAPIService_validate_card_name(name, api2, known)
         IN IF r[1] THEN <<TRUE, "None">>
            ELSE IF r[2] = "is not responding" THEN <<TRUE, "None">>
            ELSE <<FALSE, r[2]>>

\* A write that is refused when the row is no longer the one that was read.
ValidateAndWriteChecked(svc, cards, card_id, existing_card, update_data) ==
    LET validated_data == IF svc = "SharedCardService"
                          THEN update_card_data(existing_card, update_data)
                          ELSE CardUpdate(Merge(existing_card, update_data))
    IN IF DOMAIN update_data = {} THEN [result |-> "False", cards |-> cards]
       ELSE IF ~validated_data.ok THEN [result |-> "ValueError", cards |-> cards]
       ELSE IF FindById(cards, card_id) # <<existing_card>>
       THEN [result |-> "False", cards |-> cards]
       ELSE RepoUpdate(cards, card_id, validated_data.v)

\* The part of update_card that follows the read of the existing card: the
\* None filter result is checked, the merged record validated, and the
\* validated data written; existing_card is the record that was read.
ValidateAndWrite(svc, cards, card_id, existing_card, update_data) ==
    LET validated_data == IF svc = "SharedCardService"
                          THEN update_card_data(existing_card, update_data)
                          ELSE CardUpdate(Merge(existing_card, update_data))
    IN IF DOMAIN update_data = {} THEN [result |-> "False", cards |-> cards]
       ELSE IF ~validated_data.ok THEN [result |-> "ValueError", cards |-> cards]
       ELSE RepoUpdate(cards, card_id, validated_data.v)

SharedCardService_update_card(cards, card_id, kwargs) ==
    LET existing_card == FindById(cards, card_id)
        update_data == NotNone(kwargs)
    IN IF existing_card = <<>> THEN [result |-> "False", cards |-> cards]
       ELSE ValidateAndWrite("SharedCardService", cards, card_id, existing_card[1], update_data)

CardService_update_card(cards, card_id, kwargs) ==
    LET existing_card == FindById(cards, card_id)
        update_data == NotNone(kwargs)
    IN IF existing_card = <<>> THEN [result |-> "False", cards |-> cards]
       ELSE ValidateAndWrite("CardService", cards, card_id, existing_card[1], update_data)

\* An update that goes on to the merge without the existence check.
update_card_unchecked(svc, cards, card_id, kwargs) ==
    IF FindById(cards, card_id) = <<>> THEN [result |-> "TypeError", cards |-> cards]
    ELSE IF svc = "SharedCardService" THEN SharedCardService_update_card(cards, card_id, kwargs)
    ELSE CardService_update_card(cards, card_id, kwargs)

update_card(svc, cards, card_id, kwargs) ==
    IF svc = "SharedCardService" THEN SharedCardService_update_card(cards, card_id, kwargs)
    ELSE CardService_update_card(cards, card_id, kwargs)

\* A delete that reports success although the row stays.
delete_card_keeps_row(svc, cards, card_id) ==
    IF FindById(cards, card_id) = <<>> THEN [result |-> "False", cards |-> cards]
    ELSE [result |-> "True", cards |-> cards]

\* the same body in both services
delete_card(svc, cards, card_id) ==
    IF FindById(cards, card_id) = <<>> THEN [result |-> "False", cards |-> cards]
    ELSE RepoDelete(cards, card_id)

\* SharedCardService.delete_all_cards on the local repository:
\* self.repository.delete_all() on a CardRepository, which has no such method
SharedCardService_delete_all_cards(cards) == [result |-> "AttributeError", cards |-> cards]

\* A toggle that marks the card as favorite whatever it was.
toggle_favorite_sets(svc, cards, card_id) ==
    LET card == FindById(cards, card_id)
    IN IF card = <<>> THEN [result |-> "False", cards |-> cards]
       ELSE update_card(svc, cards, card_id, [is_favorite |-> 1])

\* the same body in both services
toggle_favorite(svc, cards, card_id) ==
    LET card == FindById(cards, card_id)
    IN IF card = <<>> THEN [result |-> "False", cards |-> cards]
       ELSE update_card(svc, cards, card_id, [is_favorite |-> Not(card[1]["is_favorite"])])

\* ---------------------------------------------------------- route handlers
\* auth_service.get_user_from_token: the identity provider knows one token.
TokenUser(tok) == IF tok = "tokA" THEN "userA" ELSE "none"

\* api/middleware/auth.py: "none" is no user (401 for get_current_user)
get_current_user(tok) == TokenUser(tok)
get_optional_user(tok) == IF tok = "none" THEN "none" ELSE get_current_user(tok)

Owner(card) == Get(card, "user_id", "none")

Response(status, rows, stats, cards) ==
    [status |-> status, rows |-> rows, stats |-> stats, cards |-> cards]

\* The handlers of api/routes/cards.py for a request without a valid user
\* credential (current_user is None).  The list handlers answer with an
\* empty result; the others raise HTTPException(401) inside their try block,
\* and create_card, which has no "except HTTPException: raise", catches it
\* in "except Exception" and answers 500.
CardsNoUser(endpoint, cards) ==
    CASE endpoint \in {"GET /", "GET /search", "GET /favorites"} -> Response("200", {}, {}, cards)
      [] endpoint = "GET /stats" -> Response("200", {}, {ZeroStats}, cards)
      [] endpoint = "POST /" -> Response("500", {}, {}, cards)
      [] OTHER -> Response("401", {}, {}, cards)

\* The handlers of api/routes/user_cards.py (router "user_cards") and the
\* update and delete handlers of api/routes/cards.py (router "cards"); the
\* result is the set of responses the handler can produce.
RouteHandler(router, endpoint, cards, tok, card_id, name, body) ==
    LET current_user == IF router = "cards" THEN get_optional_user(tok) ELSE get_current_user(tok)
        existing_card == FindById(cards, card_id)
        update_data == NotNone(body)
    IN IF current_user = "none"
       THEN IF router = "cards" THEN {CardsNoUser(endpoint, cards)}
            ELSE {Response("401", {}, {}, cards)}
       ELSE IF NewCardService({"user_id"}) # "ok" THEN {Response("500", {}, {}, cards)}
       ELSE CASE endpoint = "GET /" -> {Response("200", FindAll(cards), {}, cards)}
              [] endpoint = "GET /search" -> {Response("200", FindByName(cards, name), {}, cards)}
              [] endpoint = "GET /favorites" -> {Response("200", FindFavorites(cards), {}, cards)}
              [] endpoint = "GET /stats" -> {Response("200", {}, {st}, cards) : st \in GetStats(cards)}
              [] endpoint = "GET /{card_id}" ->
                   IF existing_card = <<>> THEN {Response("404", {}, {}, cards)}
                   ELSE IF router = "user_cards" /\ Owner(existing_card[1]) # current_user
                   THEN {Response("404", {}, {}, cards)}
                   ELSE {Response("200", {existing_card[1]}, {}, cards)}
              [] endpoint = "PUT /{card_id}" ->
                   IF existing_card = <<>> THEN {Response("404", {}, {}, cards)}
                   ELSE IF router = "user_cards" /\ Owner(existing_card[1]) # current_user
                   THEN {Response("404", {}, {}, cards)}
                   ELSE IF DOMAIN update_data = {} THEN {Response("400", {}, {}, cards)}
                   ELSE LET r == CardService_update_card(cards, card_id, update_data)
                        IN IF r.result = "ValueError" THEN {Response("400", {}, {}, r.cards)}
                           ELSE IF r.result # "True" THEN {Response("500", {}, {}, r.cards)}
                           ELSE {Response("200", {RowDict(card_id, r.cards[card_id])}, {}, r.cards)}
              [] endpoint = "DELETE /{card_id}" ->
                   IF existing_card = <<>> THEN {Response("404", {}, {}, cards)}
                   ELSE IF router = "user_cards" /\ Owner(existing_card[1]) # current_user
                   THEN {Response("404", {}, {}, cards)}
                   ELSE LET r == delete_card("CardService", cards, card_id)
                        IN IF r.result # "True" THEN {Response("500", {}, {}, r.cards)}
                           ELSE {Response("200", {}, {}, r.cards)}

\* An admin check that lets every credential through.
verify_admin_api_key_any(api_key, key) == "ok"

\* verify_admin_api_key: the bearer credential against Config.SUPABASE_KEY
\* (key is "unset" when the variable is not set; a credential is a string)
verify_admin_api_key(api_key, key) ==
    IF key = "unset" \/ api_key # key THEN "401" ELSE "ok"

AdminResponse(status, rows, stats, cards, read) ==
    [status |-> status, rows |-> rows, stats |-> stats, cards |-> cards, read |-> read]

\* The handlers of api/routes/admin.py; net is the outcome of the request
\* for the users table, user_id the path parameter of /cards/user.
AdminHandler(endpoint, cards, key, api_key, net, user_id) ==
    IF verify_admin_api_key(api_key, key) # "ok"
    THEN {AdminResponse("401", {}, {}, cards, FALSE)}
    ELSE IF endpoint = "GET /admin/users"
    THEN {IF net = "ok" THEN AdminResponse("200", {}, {}, cards, TRUE)
                        ELSE AdminResponse("500", {}, {}, cards, FALSE)}
    ELSE IF NewCardService({"admin"}) # "ok"
    THEN {AdminResponse("500", {}, {}, cards, FALSE)}
    ELSE CASE endpoint = "GET /admin/cards/all" ->
                {AdminResponse("200", FindAll(cards), {}, cards, TRUE)}
           [] endpoint = "GET /admin/cards/user/{user_id}" ->
                {AdminResponse("200", {r \in FindAll(cards) : Owner(r) = user_id}, {}, cards, TRUE)}
           [] endpoint = "GET /admin/stats/all" ->
                {AdminResponse("200", {}, {st}, cards, TRUE) : st \in GetStats(cards)}
           [] endpoint = "DELETE /admin/cards/clear" ->
                \* CardService has no delete_all_cards method (AttributeError)
                {AdminResponse("500", {}, {}, cards, FALSE)}

\* ------------------------------------------------------------------ inputs
X101 == Rep("a", 101)
Name100 == <<" ", "A">> \o Rep("b", 99) \o <<" ">>

\* dicts handed to CardRepository.create directly (tests/test_database.py)
DirectRows ==
    {[name |-> <<"a">>, set_name |-> <<"S">>, quantity |-> 2, is_favorite |-> 0, date_added |-> 1],
     [name |-> <<"a">>, set_name |-> <<"S">>]}

AddArgs ==
    {[name |-> <<" ", "A", "b", " ">>, set_name |-> <<"S">>, quantity |-> 2, is_favorite |-> 1],
     [name |-> <<" ">>]}

\* a name of blanks only
BlankName == [name |-> <<" ">>]

UpdateKwargs ==
    {[is_favorite |-> 1],
     [name |-> Name100, set_name |-> <<>>, card_number |-> <<" ", "7", " ">>, rarity |-> <<>>,
      quantity |-> 5],
     [quantity |-> 0],
     [name |-> X101],
     [rarity |-> None],
     [is_favorite |-> 1, date_added |-> 9],
     BlankName}

SearchNames == {<<"A">>}
\* search strings passed to search_cards
SearchProbes == {<<"A">>, <<"_">>}

\* states of the card-lookup service
ApiStates == {"healthy", "timeout", "refused", "non2xx", "nonjson"}
\* names the lookup service has a card for
KnownCards == {<<"a">>}

\* answers of the lookup service to one request
LookupAnswers == ApiStates \cup {"notobject"}
\* names handed to validate_pokemon_card
LookupNames == {<<"a">>, <<"z">>, <<" ">>}

\* (validate_pokemon, lookup state at the health check, lookup state at the lookup)
LookupEnvs ==
    {<<TRUE, a, a>> : a \in ApiStates}
        \cup {<<TRUE, "healthy", "timeout">>, <<TRUE, "timeout", "healthy">>, <<FALSE, "healthy", "healthy">>}

\* dicts handed to SupabaseCardRepository.create
RemoteRows ==
    {[name |-> <<"a">>, set_name |-> <<"S">>, quantity |-> 2],
     [name |-> <<"a">>, set_name |-> <<"T">>, quantity |-> 1, is_favorite |-> 1,
      user_id |-> "userA"]}

NetStates == {"ok", "fail"}

AdminEndpoints ==
    {"GET /admin/users", "GET /admin/cards/all", "GET /admin/cards/user/{user_id}",
     "GET /admin/stats/all", "DELETE /admin/cards/clear"}
\* bearer credentials of admin requests ("set" is the configured key)
AdminCredentials == {"set", "other"}

Services == {"CardService", "SharedCardService"}
\* user_id a service is constructed with
Users == {"none", "userA"}
Urls == {"unset", "ok", "badshape"}
Keys == {"unset", "set"}
Tokens == {"none", "bad", "tokA"}
Ids == 1..MaxCards

\* ------------------------------------------------------------------- state
VARIABLES
    cards,   \* the cards table: id -> row
    seq,     \* largest id handed out so far (sqlite_sequence)
    last,    \* the last call: what was called, with what, and what it returned
    procs,   \* the service calls in flight that run concurrently (none in Spec)
    backend,     \* the backend the table belongs to: "local" or "remote"
    auth_users,  \* identity records of the hosted auth service (by email)
    users_table  \* rows of the hosted "users" table, the profiles (by email)

vars == <<cards, seq, last, procs, backend, auth_users, users_table>>

NoCall ==
    [op |-> "none", svc |-> "none", id |-> 0, kw |-> EmptyDict,
     vp |-> FALSE, api1 |-> "none", api2 |-> "none", net |-> "none", user |-> "none",
     read |-> FALSE,
     url |-> "none", key |-> "none", tok |-> "none",
     result |-> "none", msg |-> "none", rid |-> 0, count |-> 0, rows |-> {}, stats |-> {}]

Init ==
    /\ cards = EmptyDict
    /\ seq = 0
    /\ last = NoCall
    /\ procs = <<>>
    /\ backend \in {"local", "remote"}
    /\ auth_users = {}
    /\ users_table = {}

\* SharedCardService.__init__ obtains its repository from the factory; the
\* methods below run on an instance whose construction succeeded.
SharedConstructible == \E url \in Urls, key \in Keys : get_card_repository(url, key, "none") = "local"
Constructible(svc) == IF svc = "SharedCardService" THEN SharedConstructible ELSE NewCardService({}) = "ok"

\* In the local configuration the services and routes below work on the
\* SQLite table.  In the remote configuration no SharedCardService can be
\* constructed (get_card_repository raises), and the calls modelled are the
\* ones made on a SupabaseCardRepository itself.

\* CardRepository.create called directly
RepoCreateDirect(data) ==
    /\ backend = "local"
    /\ seq < MaxCards
    /\ LET r == RepoCreate(cards, seq, data)
       IN /\ cards' = r.cards
          /\ seq' = r.seq
          /\ last' = [NoCall EXCEPT !.op = "repo_create", !.kw = data,
                                    !.result = r.result, !.rid = r.id]
    /\ UNCHANGED <<procs, backend, auth_users, users_table>>

\* add_card on a service; user is the user_id the service was constructed
\* with ("none" for a service without user context).
AddCard(svc, args, env, user) ==
    /\ backend = "local"
    /\ seq < MaxCards
    /\ Constructible(svc)
    /\ LET r == IF svc = "SharedCardService"
                THEN SharedCardService_add_card(cards, seq, args, user, 2)
                ELSE CardService_add_card(cards, seq, args, env[1], env[2], env[3], 2)
       IN /\ cards' = r.cards
          /\ seq' = r.seq
          /\ last' = [NoCall EXCEPT !.op = "add_card", !.svc = svc, !.kw = args, !.user = user,
                                    !.vp = env[1], !.api1 = env[2], !.api2 = env[3],
                                    !.result = r.result, !.rid = r.id]
    /\ UNCHANGED <<procs, backend, auth_users, users_table>>

UpdateCard(svc, id, kwargs) ==
    /\ backend = "local"
    /\ Constructible(svc)
    /\ LET r == update_card(svc, cards, id, kwargs)
       IN /\ cards' = r.cards
          /\ last' = [NoCall EXCEPT !.op = "update_card", !.svc = svc, !.id = id,
                                    !.kw = kwargs, !.result = r.result]
    /\ UNCHANGED <<seq, procs, backend, auth_users, users_table>>

DeleteCard(svc, id) ==
    /\ backend = "local"
    /\ Constructible(svc)
    /\ LET r == delete_card(svc, cards, id)
       IN /\ cards' = r.cards
          /\ last' = [NoCall EXCEPT !.op = "delete_card", !.svc = svc, !.id = id,
                                    !.result = r.result]
    /\ UNCHANGED <<seq, procs, backend, auth_users, users_table>>

ToggleFavorite(svc, id) ==
    /\ backend = "local"
    /\ Constructible(svc)
    /\ LET r == toggle_favorite(svc, cards, id)
       IN /\ cards' = r.cards
          /\ last' = [NoCall EXCEPT !.op = "toggle_favorite", !.svc = svc, !.id = id,
                                    !.result = r.result]
    /\ UNCHANGED <<seq, procs, backend, auth_users, users_table>>

GetCardRepository(url, key, tok) ==
    /\ backend = "local"
    /\ last' = [NoCall EXCEPT !.op = "get_card_repository", !.url = url, !.key = key,
                              !.tok = tok, !.result = get_card_repository(url, key, tok)]
    /\ UNCHANGED <<cards, seq, procs, backend, auth_users, users_table>>

Route(router, endpoint, tok, id, name, body) ==
    /\ backend = "local"
    /\ \E r \in RouteHandler(router, endpoint, cards, tok, id, name, body) :
          /\ cards' = r.cards
          /\ last' = [NoCall EXCEPT !.op = endpoint, !.svc = router, !.tok = tok, !.id = id,
                                    !.kw = body, !.result = r.status,
                                    !.rows = r.rows, !.stats = r.stats]
    /\ UNCHANGED <<seq, procs, backend, auth_users, users_table>>

\* CardService.get_collection_stats / SharedCardService.get_collection_stats
GetCollectionStats(svc) ==
    /\ backend = "local"
    /\ Constructible(svc)
    /\ \E st \in GetStats(cards) :
          last' = [NoCall EXCEPT !.op = "get_stats", !.svc = svc, !.net = "ok",
                                 !.result = "stats", !.stats = {st}]
    /\ UNCHANGED <<cards, seq, procs, backend, auth_users, users_table>>

\* CardService.search_cards / SharedCardService.search_cards
SearchCards(svc, name) ==
    /\ backend = "local"
    /\ Constructible(svc)
    /\ last' = [NoCall EXCEPT !.op = "search_cards", !.svc = svc, !.kw = [name |-> name],
                              !.net = "ok", !.result = "rows", !.rows = FindByName(cards, name)]
    /\ UNCHANGED <<cards, seq, procs, backend, auth_users, users_table>>

\* SupabaseCardRepository.find_by_name
RemoteFindByName(name, net) ==
    /\ backend = "remote"
    /\ last' = [NoCall EXCEPT !.op = "search_cards", !.svc = "SupabaseCardRepository",
                              !.kw = [name |-> name], !.net = net, !.result = "rows",
                              !.rows = SupabaseFindByName(cards, name, net)]
    /\ UNCHANGED <<cards, seq, procs, backend, auth_users, users_table>>

\* SupabaseCardRepository.find_by_id / find_all / find_favorites
RemoteRead(method, id, net) ==
    /\ backend = "remote"
    /\ LET r == CASE method = "find_by_id" -> SupabaseFindById(cards, id, net)
                  [] method = "find_all" ->
                       [result |-> "rows", rows |-> SupabaseFindAll(cards, net)]
                  [] method = "find_favorites" ->
                       [result |-> "rows", rows |-> SupabaseFindFavorites(cards, net)]
       IN last' = [NoCall EXCEPT !.op = method, !.svc = "SupabaseCardRepository", !.id = id,
                                 !.net = net, !.result = r.result, !.rows = r.rows]
    /\ UNCHANGED <<cards, seq, procs, backend, auth_users, users_table>>

\* SupabaseCardRepository.create
RemoteCreate(data, net) ==
    /\ backend = "remote"
    /\ \E r \in SupabaseCreate(cards, seq, data, net, 2) :
          /\ r.seq <= MaxCards
          /\ \A i \in DOMAIN r.cards : r.cards[i]["quantity"] <= MaxQty
          /\ cards' = r.cards
          /\ seq' = r.seq
          /\ last' = [NoCall EXCEPT !.op = "create", !.svc = "SupabaseCardRepository",
                                    !.kw = data, !.net = net, !.result = r.result, !.rid = r.id]
    /\ UNCHANGED <<procs, backend, auth_users, users_table>>

\* SupabaseCardRepository.update
RemoteUpdate(id, data, net) ==
    /\ backend = "remote"
    /\ LET r == SupabaseUpdate(cards, id, data, net)
       IN /\ cards' = r.cards
          /\ last' = [NoCall EXCEPT !.op = "update", !.svc = "SupabaseCardRepository",
                                    !.id = id, !.kw = data, !.net = net, !.result = r.result]
    /\ UNCHANGED <<seq, procs, backend, auth_users, users_table>>

\* SupabaseCardRepository.delete
RemoteDelete(id, net) ==
    /\ backend = "remote"
    /\ LET r == SupabaseDelete(cards, id, net)
       IN /\ cards' = r.cards
          /\ last' = [NoCall EXCEPT !.op = "delete", !.svc = "SupabaseCardRepository",
                                    !.id = id, !.net = net, !.result = r.result]
    /\ UNCHANGED <<seq, procs, backend, auth_users, users_table>>

\* SupabaseCardRepository.delete_all, first request: GET of all rows to count
\* them.  A failed request and an empty table end the call with 0; otherwise
\* the call is in flight with its count until its DELETE request.
RemoteDeleteAllCount(net) ==
    /\ backend = "remote"
    /\ procs = <<>>
    /\ LET total_cards == Cardinality(DOMAIN cards)
       IN IF net # "ok" \/ total_cards = 0
          THEN /\ last' = [NoCall EXCEPT !.op = "delete_all", !.svc = "SupabaseCardRepository",
                                         !.net = net, !.result = "count", !.count = 0]
               /\ procs' = procs
          ELSE /\ procs' = <<[call |-> "delete_all", pc |-> "delete", total_cards |-> total_cards]>>
               /\ last' = [NoCall EXCEPT !.op = "delete_all: GET", !.svc = "SupabaseCardRepository",
                                         !.net = net]
    /\ UNCHANGED <<cards, seq, backend, auth_users, users_table>>

\* SupabaseCardRepository.delete_all, second request: DELETE ...?id=not.is.null,
\* then return total_cards (0 when the request fails)
RemoteDeleteAllDelete(net) ==
    /\ backend = "remote"
    /\ procs # <<>>
    /\ cards' = IF net = "ok" THEN EmptyDict ELSE cards
    /\ last' = [NoCall EXCEPT !.op = "delete_all", !.svc = "SupabaseCardRepository",
                              !.net = net, !.result = "count",
                              !.count = IF net = "ok" THEN procs[1].total_cards ELSE 0]
    /\ procs' = <<>>
    /\ UNCHANGED <<seq, backend, auth_users, users_table>>

\* SharedCardService.delete_all_cards in the local configuration
DeleteAllCards ==
    /\ backend = "local"
    /\ Constructible("SharedCardService")
    /\ LET r == SharedCardService_delete_all_cards(cards)
       IN /\ cards' = r.cards
          /\ last' = [NoCall EXCEPT !.op = "delete_all_cards", !.svc = "SharedCardService",
                                    !.net = "ok", !.result = r.result]
    /\ UNCHANGED <<seq, procs, backend, auth_users, users_table>>

\* SupabaseCardRepository.get_stats
RemoteGetStats(net) ==
    /\ backend = "remote"
    /\ \E st \in SupabaseGetStats(cards, net) :
          last' = [NoCall EXCEPT !.op = "get_stats", !.svc = "SupabaseCardRepository",
                                 !.net = net, !.result = "stats", !.stats = {st}]
    /\ UNCHANGED <<cards, seq, procs, backend, auth_users, users_table>>

AdminRoute(endpoint, key, api_key, net) ==
    /\ \E r \in AdminHandler(endpoint, cards, key, api_key, net, "userA") :
          /\ cards' = r.cards
          /\ last' = [NoCall EXCEPT !.op = endpoint, !.svc = "admin", !.key = key,
                                    !.tok = api_key, !.net = net, !.result = r.status,
                                    !.rows = r.rows, !.stats = r.stats, !.read = r.read]
    /\ UNCHANGED <<seq, procs, backend, auth_users, users_table>>

\* CardService.validate_pokemon_card
ValidatePokemonCard(name, api1, api2) ==
    /\ backend = "local"
    /\ Constructible("CardService")
    /\ LET r == validate_pokemon_card(name, api1, api2, KnownCards)
       IN last' = [NoCall EXCEPT !.op = "validate_pokemon_card", !.svc = "CardService",
                                 !.kw = [name |-> name], !.api1 = api1, !.api2 = api2,
                                 !.result = IF r[1] THEN "True" ELSE "False", !.msg = r[2]]
    /\ UNCHANGED <<cards, seq, procs, backend, auth_users, users_table>>

UserRead ==
    \/ \E endpoint \in {"GET /", "GET /favorites", "GET /stats"} :
          Route("user_cards", endpoint, "tokA", 0, <<>>, EmptyDict)
    \/ \E name \in SearchNames : Route("user_cards", "GET /search", "tokA", 0, name, EmptyDict)
    \/ \E id \in Ids : Route("user_cards", "GET /{card_id}", "tokA", id, <<>>, EmptyDict)
    \/ Route("user_cards", "GET /", "bad", 0, <<>>, EmptyDict)

\* requests on the /cards routes without a valid user credential
RouteNoUser ==
    \E endpoint \in {"GET /", "GET /{card_id}", "POST /"}, tok \in {"none", "bad"} :
       /\ endpoint = "GET /" => tok = "none"
       /\ Route("cards", endpoint, tok, IF endpoint = "GET /{card_id}" THEN 1 ELSE 0, <<>>,
                IF endpoint = "POST /" THEN [name |-> <<"a">>] ELSE EmptyDict)

RouteWrite ==
    \E router \in {"cards", "user_cards"}, tok \in {"none", "tokA"}, id \in Ids :
       /\ tok = "none" => router = "cards" /\ id = 1
       /\ \/ Route(router, "PUT /{card_id}", tok, id, <<>>, [quantity |-> 5])
          \/ Route(router, "DELETE /{card_id}", tok, id, <<>>, EmptyDict)

Next ==
    \/ \E data \in DirectRows : RepoCreateDirect(data)
    \/ \E svc \in Services, args \in AddArgs, env \in LookupEnvs, user \in Users :
          /\ (svc = "SharedCardService" \/ ~CardCreate([name |-> Strip(args["name"])]).ok)
                => env = <<FALSE, "healthy", "healthy">>
          /\ user # "none" => svc = "SharedCardService"
          /\ AddCard(svc, args, env, user)
    \/ \E svc \in Services, id \in Ids, kwargs \in UpdateKwargs :
          /\ kwargs = BlankName => svc = "CardService" /\ id = 1
          /\ UpdateCard(svc, id, kwargs)
    \/ \E svc \in Services, id \in Ids : DeleteCard(svc, id)
    \/ \E svc \in Services, id \in Ids : ToggleFavorite(svc, id)
    \/ \E url \in Urls, key \in Keys, tok \in {"none", "jwt"} :
          /\ tok = "jwt" => (url = "ok" /\ key = "set") \/ (url = "unset" /\ key = "unset")
          /\ GetCardRepository(url, key, tok)
    \/ UserRead
    \/ RouteWrite
    \/ RouteNoUser
    \/ \E svc \in Services : GetCollectionStats(svc)
    \/ \E data \in RemoteRows, net \in NetStates : RemoteCreate(data, net)
    \/ \E id \in Ids, net \in NetStates : RemoteUpdate(id, [is_favorite |-> 1], net)
    \/ \E id \in Ids, net \in NetStates : RemoteDelete(id, net)
    \/ \E net \in NetStates : RemoteGetStats(net)
    \/ \E endpoint \in AdminEndpoints, key \in Keys, api_key \in AdminCredentials,
           net \in NetStates :
          /\ key = (IF backend = "remote" THEN "set" ELSE "unset")
          /\ key = "unset" => endpoint = "GET /admin/cards/all"
          /\ net = "fail" => endpoint = "GET /admin/users" /\ api_key = "set"
          /\ AdminRoute(endpoint, key, api_key, net)
    \/ \E svc \in Services, name \in SearchProbes : SearchCards(svc, name)
    \/ \E name \in SearchProbes, net \in NetStates : RemoteFindByName(name, net)
    \/ \E name \in LookupNames, api1 \in LookupAnswers, api2 \in LookupAnswers :
          /\ api1 # "healthy" => api2 = "healthy" /\ name = <<"z">>
          /\ name = <<" ">> => api2 = "healthy"
          /\ ValidatePokemonCard(name, api1, api2)
    \/ \E id \in Ids, net \in NetStates : RemoteRead("find_by_id", id, net)
    \/ \E method \in {"find_all", "find_favorites"}, net \in NetStates : RemoteRead(method, 0, net)
    \/ \E net \in NetStates : RemoteDeleteAllCount(net)
    \/ \E net \in NetStates : RemoteDeleteAllDelete(net)
    \/ DeleteAllCards

Spec == Init /\ [][Next]_vars

\* ------------------------------------------------ concurrent service calls
\* Two requests run a service call each on the local table.  A call is a
\* sequence of repository calls (each one SQL statement, serialized by the
\* one connection) with nothing that holds the row between them:
\*   toggle_favorite: find_by_id, then update_card with the negated flag;
\*   update_card:     find_by_id, then validation and UPDATE;
\*   delete_card:     find_by_id, then DELETE.
\* Other requests insert rows (CardRepository.create) in between.
Procs == {1, 2}

\* rows of a table the concurrent calls start on (rows made by
\* CardRepository.create, is_favorite either way)
ConcRows ==
    {[name |-> <<"a">>, set_name |-> <<"S">>, card_number |-> None, rarity |-> None,
      quantity |-> 2, is_favorite |-> f, date_added |-> 1] : f \in {0, 1}}

ConcKwargs == {[name |-> <<" ", "b">>], [quantity |-> 5]}

NewCall(call, svc, id, kw) ==
    [call |-> call, svc |-> svc, id |-> id, kw |-> kw,
     pc |-> CASE call = "toggle_favorite" -> "toggle_read"
              [] call = "update_card" -> "update_read"
              [] call = "delete_card" -> "delete_read",
     seen |-> 2, existing |-> <<>>, result |-> "none"]

Calls ==
    {NewCall("toggle_favorite", svc, id, EmptyDict) : svc \in Services, id \in Ids}
        \cup {NewCall("update_card", "SharedCardService", id, kw) : id \in Ids, kw \in ConcKwargs}
        \cup {NewCall("delete_card", "SharedCardService", id, EmptyDict) : id \in Ids}

ConcInit ==
    /\ backend = "local"
    /\ \E n \in 1..MaxCards : cards \in [1..n -> ConcRows] /\ seq = n
    /\ last = NoCall
    /\ procs \in [Procs -> Calls]
    /\ auth_users = {}
    /\ users_table = {}

\* toggle_favorite: card = find_by_id(card_id); not found -> return False
ToggleRead(p) ==
    /\ procs[p].pc = "toggle_read"
    /\ LET card == FindById(cards, procs[p].id)
       IN procs' = [procs EXCEPT ![p] =
             IF card = <<>> THEN [@ EXCEPT !.pc = "done", !.result = "False"]
             ELSE [@ EXCEPT !.pc = "update_read", !.seen = card[1]["is_favorite"],
                            !.kw = [is_favorite |-> Not(card[1]["is_favorite"])]]]
    /\ UNCHANGED <<cards, seq, last, backend, auth_users, users_table>>

\* update_card: existing_card = find_by_id(card_id); not found -> return False
UpdateRead(p) ==
    /\ procs[p].pc = "update_read"
    /\ LET existing_card == FindById(cards, procs[p].id)
       IN procs' = [procs EXCEPT ![p] =
             IF existing_card = <<>> THEN [@ EXCEPT !.pc = "done", !.result = "False"]
             ELSE [@ EXCEPT !.pc = "write", !.existing = existing_card]]
    /\ UNCHANGED <<seq, cards, last, backend, auth_users, users_table>>

\* update_card: validation of the merged record and repository.update
UpdateWrite(p) ==
    /\ procs[p].pc = "write"
    /\ LET r == ValidateAndWrite(procs[p].svc, cards, procs[p].id, procs[p].existing[1],
                                 NotNone(procs[p].kw))
       IN /\ cards' = r.cards
          /\ procs' = [procs EXCEPT ![p] = [@ EXCEPT !.pc = "done", !.result = r.result]]
    /\ UNCHANGED <<seq, last, backend, auth_users, users_table>>

\* delete_card: find_by_id(card_id); not found -> return False
DeleteRead(p) ==
    /\ procs[p].pc = "delete_read"
    /\ procs' = [procs EXCEPT ![p] =
          IF FindById(cards, procs[p].id) = <<>> THEN [@ EXCEPT !.pc = "done", !.result = "False"]
          ELSE [@ EXCEPT !.pc = "delete"]]
    /\ UNCHANGED <<cards, seq, last, backend, auth_users, users_table>>

\* delete_card: success = repository.delete(card_id)
DeleteWrite(p) ==
    /\ procs[p].pc = "delete"
    /\ LET r == RepoDelete(cards, procs[p].id)
       IN /\ cards' = r.cards
          /\ procs' = [procs EXCEPT ![p] = [@ EXCEPT !.pc = "done", !.result = r.result]]
    /\ UNCHANGED <<seq, last, backend, auth_users, users_table>>

\* CardRepository.create by another request
ConcCreate ==
    /\ seq < MaxCards
    /\ \E row \in ConcRows :
          LET r == RepoCreate(cards, seq, row)
          IN cards' = r.cards /\ seq' = r.seq
    /\ UNCHANGED <<last, procs, backend, auth_users, users_table>>

ConcNext ==
    \/ \E p \in Procs : ToggleRead(p)
    \/ \E p \in Procs : UpdateRead(p)
    \/ \E p \in Procs : UpdateWrite(p)
    \/ \E p \in Procs : DeleteRead(p)
    \/ \E p \in Procs : DeleteWrite(p)
    \/ ConcCreate

SpecConc == ConcInit /\ [][ConcNext]_vars

\* ------------------------------------------------------------ registration
\* AuthService (services/auth_service.py) on the hosted auth service and the
\* hosted "users" table.  client is "None" when create_client failed in
\* __init__; auth and insert are the outcomes of the two requests of
\* sign_up: "ok", or "fail" for a request that raises.
Emails == {"e1", "e2", "e3"}
ClientStates == {"ok", "None"}

\* auth.sign_up of the hosted service: an email that has an identity record
\* is refused, a failed request creates nothing.
AuthSignUp(identities, email, auth) ==
    IF auth # "ok" \/ email \in identities
    THEN [user |-> "none", identities |-> identities, raised |-> TRUE]
    ELSE [user |-> email, identities |-> identities \cup {email}, raised |-> FALSE]

\* AuthService.sign_up: the success flag, the identity records and the
\* profile rows after the call
sign_up(identities, profiles, email, client, auth, insert) ==
    IF client = "None"
    THEN [success |-> "False", identities |-> identities, profiles |-> profiles]
    ELSE LET response == AuthSignUp(identities, email, auth)
         IN IF response.raised \/ response.user = "none"
            THEN [success |-> "False", identities |-> response.identities, profiles |-> profiles]
            \* table("users").insert(user_profile).execute() raises: caught by
            \* "except Exception", nothing undoes the auth.sign_up
            ELSE IF insert # "ok" \/ email \in profiles
            THEN [success |-> "False", identities |-> response.identities, profiles |-> profiles]
            ELSE [success |-> "True", identities |-> response.identities,
                  profiles |-> profiles \cup {email}]

\* AuthService.delete_user: deletes the row of the users table only
delete_user(identities, profiles, email, client, net) ==
    IF client = "None" \/ net # "ok"
    THEN [success |-> "False", identities |-> identities, profiles |-> profiles]
    ELSE [success |-> "True", identities |-> identities, profiles |-> profiles \ {email}]

SignUp(email, client, auth, insert) ==
    /\ LET r == sign_up(auth_users, users_table, email, client, auth, insert)
       IN /\ auth_users' = r.identities
          /\ users_table' = r.profiles
          /\ last' = [NoCall EXCEPT !.op = "sign_up", !.svc = "AuthService",
                                    !.kw = [email |-> email, client |-> client, auth |-> auth,
                                            insert |-> insert],
                                    !.result = r.success]
    /\ UNCHANGED <<cards, seq, procs, backend>>

DeleteUser(email, client, net) ==
    /\ LET r == delete_user(auth_users, users_table, email, client, net)
       IN /\ auth_users' = r.identities
          /\ users_table' = r.profiles
          /\ last' = [NoCall EXCEPT !.op = "delete_user", !.svc = "AuthService",
                                    !.kw = [email |-> email, client |-> client], !.net = net,
                                    !.result = r.success]
    /\ UNCHANGED <<cards, seq, procs, backend>>

AuthInit ==
    /\ cards = EmptyDict
    /\ seq = 0
    /\ last = NoCall
    /\ procs = <<>>
    /\ backend = "remote"
    /\ auth_users = {}
    /\ users_table = {}

AuthNext ==
    \/ \E email \in Emails, client \in ClientStates, auth \in NetStates, insert \in NetStates :
          /\ client = "None" => auth = "ok" /\ insert = "ok"
          /\ SignUp(email, client, auth, insert)
    \/ \E email \in Emails, client \in ClientStates, net \in NetStates :
          /\ client = "None" => net = "ok"
          /\ DeleteUser(email, client, net)

SpecAuth == AuthInit /\ [][AuthNext]_vars

\* ------------------------------------------------------------------ claims
ReadEndpoints == {"GET /", "GET /search", "GET /favorites", "GET /stats", "GET /{card_id}"}
WriteEndpoints == {"PUT /{card_id}", "DELETE /{card_id}"}

\* the value a service stores for a supplied field
Validated(svc, k, v) == IF svc = "SharedCardService" THEN ValidateUpdate(k, v).v ELSE v

\* the input passes the validation of the service's add_card
Accepted(svc, args) ==
    IF svc = "SharedCardService" THEN create_card_data(args, "none", 2).ok
    ELSE CardCreate(Merge(args, [name |-> Strip(args["name"])])).ok

\* the rows of the table that belong to user
OwnedBy(table, user) ==
    [i \in {j \in DOMAIN table : Owner(RowDict(j, table[j])) = user} |-> table[i]]

\* C1: a successful update_card(id, fields) sets exactly the supplied
\* non-null fields to their validated values and leaves the other fields of
\* the card (id, date_added, no owner column appears) and every other card
\* as they were.
C1_UpdateFrame ==
    [][(last'.op = "update_card" /\ last'.result = "True") =>
         LET id == last'.id
             kw == NotNone(last'.kw)
         IN /\ id \in DOMAIN cards
            /\ DOMAIN cards' = DOMAIN cards
            /\ DOMAIN cards'[id] = DOMAIN cards[id]
            /\ \A k \in CardFields :
                  cards'[id][k] = IF k \in DOMAIN kw THEN Validated(last'.svc, k, kw[k])
                                  ELSE cards[id][k]
            /\ cards'[id]["date_added"] = cards[id]["date_added"]
            /\ \A j \in DOMAIN cards \ {id} : cards'[j] = cards[j]]_vars

C1_Witness ==
    /\ last.op = "update_card" /\ last.svc = "SharedCardService" /\ last.result = "True"
    /\ "name" \in DOMAIN last.kw
    /\ cards[last.id]["is_favorite"] = 1
    /\ Cardinality(DOMAIN cards) >= 2

\* C2: add_card of an input that validation accepts returns an id under
\* which get_card finds a record with the validated name, set_name,
\* card_number, rarity, quantity and is_favorite and with date_added set.
C2_AddThenGet ==
    (last.op = "add_card" /\ last.svc = "SharedCardService" /\ Accepted(last.svc, last.kw)) =>
       /\ last.result = "id"
       /\ FindById(cards, last.rid) # <<>>
       /\ LET card == FindById(cards, last.rid)[1]
              data == create_card_data(last.kw, "none", 2).v
          IN /\ \A k \in CardFields : card[k] = data[k]
             /\ card["date_added"] # 0

C5_NoSilentFallback ==
    (last.op = "get_card_repository" /\ last.url # "unset" /\ last.key = "unset") =>
       last.result = "ValueError"

\* C6: get_card_repository returns the remote backend when endpoint and
\* credential are configured and the URL has the right shape, with or
\* without a user token, and the local backend when they are not both
\* configured.
C6_FactoryDecision ==
    last.op = "get_card_repository" =>
       /\ (last.url = "ok" /\ last.key = "set") => last.result = "remote"
       /\ (last.url = "unset" \/ last.key = "unset") => last.result = "local"

\* C7: whatever the state of the lookup service at the health check and at
\* the lookup, add_card of a card that is otherwise valid completes and the
\* card is stored.
C7_LookupNeverBlocksAdd ==
    (last.op = "add_card" /\ last.svc = "CardService" /\ last.api1 \in ApiStates
        /\ last.api2 \in ApiStates /\ Accepted(last.svc, last.kw)) =>
       last.result = "id" /\ last.rid \in DOMAIN cards

\* C8: add_card with validation enabled, a healthy lookup service and a
\* name the service has no card for is rejected as invalid, and nothing is
\* stored.
C8_NoMatchRejects ==
    (last.op = "add_card" /\ last.svc = "CardService" /\ last.vp
        /\ last.api1 = "healthy" /\ last.api2 = "healthy"
        /\ Strip(last.kw["name"]) \notin KnownCards) =>
       last.result = "ValueError" /\ last.rid = 0

\* C9: after delete_card(id) returned true for an existing card, get_card(id)
\* finds nothing, the card is in no list or favorites result and in no result
\* of a search (by the first character of its name, by the empty pattern),
\* and every other card is unchanged.
C9_DeleteRemoves ==
    [][(last'.op = "delete_card" /\ last'.result = "True") =>
         LET id == last'.id
         IN /\ id \in DOMAIN cards
            /\ FindById(cards', id) = <<>>
            /\ \A r \in FindAll(cards') \cup FindFavorites(cards')
                          \cup FindByName(cards', SubSeq(cards[id]["name"], 1, 1))
                          \cup FindByName(cards', <<>>) : r["id"] # id
            /\ \A j \in DOMAIN cards \ {id} : j \in DOMAIN cards' /\ cards'[j] = cards[j]]_vars

C9_Witness ==
    /\ last.op = "delete_card" /\ last.result = "True"
    /\ last.id \notin DOMAIN cards
    /\ \E j \in DOMAIN cards : cards[j]["is_favorite"] = 1

\* C10: update_card, delete_card and toggle_favorite on an id that matches
\* no stored card return false and leave the collection as it was.
C10_UnknownIdNoEffect ==
    [][(last'.op \in {"update_card", "delete_card", "toggle_favorite"}
          /\ last'.id \notin DOMAIN cards) =>
         last'.result = "False" /\ cards' = cards /\ seq' = seq]_vars

C10_Witness ==
    /\ last.op = "update_card" /\ last.result = "False"
    /\ last.kw = [is_favorite |-> 1]
    /\ last.id \notin DOMAIN cards
    /\ DOMAIN cards # {}

\* C11: toggle_favorite on an existing card returns true and flips its
\* is_favorite, leaving the other fields and the other cards as they were,
\* and a second toggle_favorite on the same card, run after the first,
\* returns true and restores the collection of before the first.
C11_ToggleInvolution ==
    [][(last'.op = "toggle_favorite" /\ last'.id \in DOMAIN cards) =>
         LET id == last'.id
             again == toggle_favorite(last'.svc, cards', id)
         IN /\ last'.result = "True"
            /\ DOMAIN cards' = DOMAIN cards
            /\ cards'[id] = [cards[id] EXCEPT !["is_favorite"] = Not(cards[id]["is_favorite"])]
            /\ \A j \in DOMAIN cards \ {id} : cards'[j] = cards[j]
            /\ again.result = "True"
            /\ again.cards = cards]_vars

C11_Witness ==
    /\ last.op = "toggle_favorite" /\ last.result = "True"
    /\ cards[last.id]["is_favorite"] = 0
    /\ cards[last.id]["quantity"] = 5

\* what get_stats has to return on a table
StatsOk(table, st) ==
    LET n(s) == Cardinality({i \in DOMAIN table : table[i]["set_name"] = s})
    IN /\ st["total_cards"] = Cardinality(DOMAIN table)
       /\ st["total_quantity"] = SumQuantity(table, DOMAIN table)
       /\ st["favorites"] = Cardinality({i \in DOMAIN table : table[i]["is_favorite"] = 1})
       /\ IF DOMAIN table = {} THEN st["most_common_set"] = <<"N", "o", "n", "e">>
          ELSE \E i \in DOMAIN table :
                  /\ st["most_common_set"] = table[i]["set_name"]
                  /\ \A j \in DOMAIN table : n(table[j]["set_name"]) <= n(table[i]["set_name"])

\* C12 as stated: whatever happened before, get_stats of either backend
\* returns the count of the stored records, the sum of their quantities, the
\* number of favorites and a set name of maximal count ("None" and zeros on
\* an empty collection).
C12_StatsAlways ==
    last.op = "get_stats" => \A st \in last.stats : StatsOk(cards, st)

\* C12 amended: get_stats returns these values whenever the backend
\* answers the read, which the local backend always does; when the read
\* request of the remote backend fails it returns 0, 0, 0 and "None".
C12_StatsWhenAnswered ==
    last.op = "get_stats" =>
        \A st \in last.stats : IF last.net = "ok" THEN StatsOk(cards, st) ELSE st = ZeroStats

C12_Witness ==
    /\ last.op = "get_stats" /\ last.svc = "SupabaseCardRepository" /\ last.net = "ok"
    /\ Cardinality(DOMAIN cards) = 2
    /\ \E i \in DOMAIN cards : cards[i]["quantity"] = 3
    /\ \E st \in last.stats : st["favorites"] = 1 /\ st["total_quantity"] = 5

\* s is a substring of t, compared without regard to case
Contains(s, t) ==
    \E k \in 0..(Len(t) - Len(s)) : \A i \in 1..Len(s) : Lower(t[k + i]) = Lower(s[i])

\* C13: search_cards(s) returns exactly the stored cards whose name contains
\* s as a substring, compared case-insensitively, in both backends (stated
\* for the searches the backend answers).
C13_SearchExact ==
    (last.op = "search_cards" /\ last.net = "ok") =>
        last.rows = {RowDict(i, cards[i]) :
                        i \in {j \in DOMAIN cards : Contains(last.kw["name"], cards[j]["name"])}}

\* C14: no update_card and no toggle_favorite call, whatever fields it
\* supplies (a date_added value included), changes the date_added of a
\* stored card.
C14_DateAddedFixed ==
    [][last'.op \in {"update_card", "toggle_favorite"} =>
         \A i \in DOMAIN cards :
            i \in DOMAIN cards' /\ cards'[i]["date_added"] = cards[i]["date_added"]]_vars

C14_Witness ==
    /\ last.op = "update_card" /\ last.result = "True"
    /\ "date_added" \in DOMAIN last.kw
    /\ cards[last.id]["is_favorite"] = 1
    /\ cards[last.id]["date_added"] # last.kw["date_added"]

\* C15: a card that add_card creates through a service bound to user U is
\* stored with owner U, and one created through a service without user
\* context is stored with no owner.
C15_OwnerStored ==
    (last.op = "add_card" /\ last.svc = "SharedCardService" /\ last.user \in Users
        /\ Accepted(last.svc, last.kw)) =>
       /\ last.result = "id"
       /\ FindById(cards, last.rid) # <<>>
       /\ Owner(FindById(cards, last.rid)[1]) = last.user
       /\ Owner(create_card_data(last.kw, last.user, 2).v) = last.user

\* C16: an /admin request whose bearer credential is not the configured
\* service credential is answered 401, returns no stored data, reads no
\* storage and leaves the table as it was; storage is read or changed only
\* for a request that carries the configured credential.
C16_AdminGate ==
    [][last'.svc = "admin" =>
         /\ (last'.key = "unset" \/ last'.tok # last'.key) =>
               /\ last'.result = "401"
               /\ ~last'.read /\ last'.rows = {} /\ last'.stats = {}
               /\ cards' = cards
         /\ (last'.read \/ cards' # cards) => (last'.key # "unset" /\ last'.tok = last'.key)]_vars

C16_Witness ==
    /\ last.svc = "admin" /\ last.op = "DELETE /admin/cards/clear"
    /\ last.key = "set" /\ last.tok = "other" /\ last.result = "401"
    /\ DOMAIN cards # {}

\* C17: two toggle_favorite calls on the same stored card that both read the
\* flag before either has written (they saw the same value) both return
\* true, and the stored flag ends as the negation of the value they saw: it
\* is flipped once, one toggle is lost.
C17_LostToggle ==
    \A p \in Procs, q \in Procs :
       (/\ p # q
        /\ procs[p].call = "toggle_favorite" /\ procs[q].call = "toggle_favorite"
        /\ procs[p].id = procs[q].id
        /\ procs[p].pc = "done" /\ procs[q].pc = "done"
        /\ procs[p].seen \in {0, 1} /\ procs[p].seen = procs[q].seen) =>
          /\ procs[p].result = "True" /\ procs[q].result = "True"
          /\ cards[procs[p].id]["is_favorite"] = Not(procs[p].seen)

C17_Witness ==
    /\ procs # <<>>
    /\ procs[1].call = "toggle_favorite" /\ procs[2].call = "toggle_favorite"
    /\ procs[1].id = procs[2].id
    /\ procs[1].pc = "done" /\ procs[2].pc = "done"
    /\ procs[1].result = "True" /\ procs[2].result = "True"
    /\ procs[1].seen = 0 /\ procs[2].seen = 0
    /\ cards[procs[1].id]["is_favorite"] = 1

C19_NameInvariant ==
    last.op \in {"add_card", "update_card"} =>
        \A i \in DOMAIN cards :
           LET name == cards[i]["name"]
           IN name # None /\ Strip(name) = name /\ Len(name) >= 1 /\ Len(name) <= NameMax

\* C20: in either backend every stored card has an integer quantity of at
\* least 1, whatever add_card, update_card, toggle_favorite, delete and
\* merging remote create calls have run.
C20_QuantityAtLeastOne ==
    \A i \in DOMAIN cards : cards[i]["quantity"] \in Nat /\ cards[i]["quantity"] >= 1

C20_Witness ==
    /\ last.op = "update_card" /\ last.svc = "CardService" /\ last.result = "ValueError"
    /\ last.kw = [quantity |-> 0]
    /\ last.id \in DOMAIN cards
    /\ cards[last.id]["quantity"] = 5

\* a field validator of card_operations rejects a value supplied to add_card
\* (kw are the arguments) or to update_card (kw are the non-None fields)
ValidatorsReject(op, kw) ==
    IF op = "add_card"
    THEN \/ ~validate_card_name(Get(kw, "name", None)).ok
         \/ ~validate_card_set(Get(kw, "set_name", Unknown)).ok
         \/ ~validate_card_quantity(Get(kw, "quantity", 1)).ok
         \/ ~validate_card_number(Get(kw, "card_number", None)).ok
         \/ ~validate_card_rarity(Get(kw, "rarity", None)).ok
    ELSE \E k \in DOMAIN NotNone(kw) : ~ValidateUpdate(k, NotNone(kw)[k]).ok

\* C21: an add_card or an update_card of a stored card whose input a field
\* validator rejects raises a validation error and writes nothing: no
\* record is created and every record keeps its field values.
C21_RejectedBeforeWrite ==
    [][(/\ last'.op \in {"add_card", "update_card"}
        /\ last'.op = "update_card" => last'.id \in DOMAIN cards
        /\ ValidatorsReject(last'.op, last'.kw)) =>
         last'.result = "ValueError" /\ cards' = cards /\ seq' = seq]_vars

\* C22: validate_pokemon_card returns (False, message) only when the lookup
\* request was answered successfully with no matching card, and returns
\* (True, None) whenever the health check or the lookup request failed
\* (timeout, connection error, non-2xx, a body that is not JSON or is
\* otherwise unusable).
C22_LookupFailOpen ==
    last.op = "validate_pokemon_card" =>
       /\ last.result = "False" =>
             /\ last.api1 = "healthy" /\ last.api2 = "healthy"
             /\ Strip(last.kw["name"]) # <<>>
             /\ Strip(last.kw["name"]) \notin KnownCards
       /\ (last.api1 # "healthy" \/ last.api2 # "healthy") =>
             last.result = "True" /\ last.msg = "None"

\* C23: when the request of a remote read fails, find_by_id returns None and
\* find_all, find_by_name and find_favorites return an empty list; no
\* exception comes out of the call and the stored data is as before.
C23_RemoteReadDegrades ==
    [][(/\ last'.svc = "SupabaseCardRepository"
        /\ last'.op \in {"find_by_id", "find_all", "find_favorites", "search_cards"}
        /\ last'.net = "fail") =>
         /\ last'.result = (IF last'.op = "find_by_id" THEN "None" ELSE "rows")
         /\ last'.rows = {}
         /\ cards' = cards /\ seq' = seq]_vars

C23_Witness ==
    /\ last.svc = "SupabaseCardRepository" /\ last.op = "find_by_id" /\ last.net = "fail"
    /\ last.id \in DOMAIN cards
    /\ last.result = "None"
    /\ \E i \in DOMAIN cards : cards[i]["is_favorite"] = 1

\* C24: in both backends a delete of an id that no stored record has
\* returns false, and a delete returns true only when the call removed a
\* record (so of two deletes of one id at most one returns true).
C24_DeleteReportsRemoval ==
    [][last'.op \in {"delete", "delete_card"} =>
         /\ last'.id \notin DOMAIN cards => last'.result = "False"
         /\ last'.result = "True" =>
               last'.id \in DOMAIN cards /\ last'.id \notin DOMAIN cards']_vars

\* C25: delete_all_cards / delete_all whose storage requests succeed leaves
\* no stored card and returns the number of records it removed, whatever
\* create or delete ran between its count and its delete.
C25_DeleteAllCount ==
    [][(last'.op \in {"delete_all", "delete_all_cards"} /\ last'.net = "ok") =>
         /\ last'.result = "count"
         /\ cards' = EmptyDict
         /\ last'.count = Cardinality(DOMAIN cards)]_vars

\* C26: a remote create (service credential, request answered) whose name,
\* set_name and card_number match a stored record adds the supplied quantity
\* to that record and returns its id, with no record added; without a match
\* it adds exactly one record, under the id it returns.
C26_RemoteUpsert ==
    [][(last'.op = "create" /\ last'.svc = "SupabaseCardRepository" /\ last'.net = "ok") =>
         LET data == last'.kw
             match == {i \in DOMAIN cards :
                          /\ cards[i]["name"] = Get(data, "name", None)
                          /\ cards[i]["set_name"] = Get(data, "set_name", Unknown)
                          /\ cards[i]["card_number"] = Get(data, "card_number", None)}
             id == last'.rid
         IN /\ last'.result = "id"
            /\ IF match # {}
               THEN /\ id \in match
                    /\ DOMAIN cards' = DOMAIN cards
                    /\ cards'[id] = [cards[id] EXCEPT !["quantity"] = @ + Get(data, "quantity", 1)]
                    /\ \A j \in DOMAIN cards \ {id} : cards'[j] = cards[j]
               ELSE /\ id \notin DOMAIN cards
                    /\ DOMAIN cards' = DOMAIN cards \cup {id}
                    /\ cards'[id]["name"] = Get(data, "name", None)
                    /\ cards'[id]["quantity"] = Get(data, "quantity", 1)
                    /\ \A j \in DOMAIN cards : cards'[j] = cards[j]]_vars

C26_Witness ==
    /\ last.op = "create" /\ last.svc = "SupabaseCardRepository" /\ last.result = "id"
    /\ Cardinality(DOMAIN cards) = 2
    /\ last.rid \in DOMAIN cards
    /\ cards[last.rid]["quantity"] > Get(last.kw, "quantity", 1)

\* C27: a get-by-id, create, update or delete request on the /cards routes
\* that carries no valid user credential is answered 401, returns no stored
\* data and leaves the table as it was.
C27_CardsRequireUser ==
    [][(/\ last'.svc = "cards"
        /\ last'.op \in {"GET /{card_id}", "POST /", "PUT /{card_id}", "DELETE /{card_id}"}
        /\ TokenUser(last'.tok) = "none") =>
         /\ last'.result = "401"
         /\ last'.rows = {}
         /\ cards' = cards /\ seq' = seq]_vars

\* C28: once a delete_card(id) has returned true, no stored record has that
\* id in any later state: an update_card or toggle_favorite on the id that
\* is in flight or comes later does not bring the record back, and no later
\* insert is given the id.
C28_DeletedStaysAbsent ==
    \A p \in DOMAIN procs :
       (procs[p].call = "delete_card" /\ procs[p].pc = "done" /\ procs[p].result = "True") =>
          FindById(cards, procs[p].id) = <<>>

C28_Witness ==
    /\ procs # <<>>
    /\ procs[1].call = "delete_card" /\ procs[1].pc = "done" /\ procs[1].result = "True"
    /\ procs[2].call = "update_card" /\ procs[2].id = procs[1].id
    /\ procs[2].existing # <<>>
    /\ procs[2].pc = "done" /\ procs[2].result = "False"
    /\ seq > Cardinality(DOMAIN cards)
    /\ procs[1].id \notin DOMAIN cards

\* C29: the admin clear-all-cards request that carries the configured
\* service credential is answered with success unless the bulk delete of
\* the storage failed, also on an empty collection; no bulk delete fails in
\* these runs, so the request is answered 200.
C29_ClearAllSucceeds ==
    (/\ last.svc = "admin" /\ last.op = "DELETE /admin/cards/clear"
     /\ last.key # "unset" /\ last.tok = last.key /\ last.net = "ok") =>
       last.result = "200"

\* C30: a sign_up for an email that has neither identity record nor profile
\* ends with both of them stored and success true, or with neither stored
\* and success false.
C30_SignUpAllOrNothing ==
    [][(/\ last'.op = "sign_up"
        /\ last'.kw["email"] \notin auth_users
        /\ last'.kw["email"] \notin users_table) =>
         LET email == last'.kw["email"]
         IN \/ last'.result = "True" /\ email \in auth_users' /\ email \in users_table'
            \/ last'.result = "False" /\ email \notin auth_users' /\ email \notin users_table']_vars

====
